---- MODULE Spec2Model ----
(***************************************************************************)
(* Model of the dragon-curve library (src/src/dragon.rs) and of the frame  *)
(* loop that drives it (src/src/main.rs).                                  *)
(*                                                                         *)
(* A Dir is its u8 discriminant 0..7 (Npp = 0 .. N0p = 7).  CurveFlags is  *)
(* its u8 bit set.  A DragonCurve is a record [list, depth, flags] whose   *)
(* list is the LinkedList<Dir> as a sequence.                              *)
(*                                                                         *)
(* Dir::rotate adds two u8 values with `+`.  With overflow checks compiled *)
(* in (debug profile) a sum above 255 panics; without them (release        *)
(* profile) it wraps.  The variable `checked` is the profile of the build. *)
(***************************************************************************)
EXTENDS Integers, Sequences, FiniteSets, TLC

\* ---------------------------------------------------------------- bounds
MaxDepth == 4        \* largest depth requested in Spec, of `other` in SpecPair
MaxDeep == 9         \* largest depth requested in SpecTrip, of `curve` in SpecPair
MaxSlider == 4       \* largest slider position in SpecShell

\* ------------------------------------------------------------- constants
U8 == 256
NONE == 0
LEVY == 1
FLIP == 2
Np0 == 1

Dirs == 0..7
AllFlags == {NONE, LEVY, FLIP, LEVY + FLIP}
RotateAmounts == {1, 3, 8, 250, 255}

RECURSIVE Pow2(_)
Pow2(n) == IF n = 0 THEN 1 ELSE 2 * Pow2(n - 1)

Min(S) == CHOOSE x \in S : \A y \in S : x <= y

\* ------------------------------------------------------------------- Dir
contains(flags, bit) == (flags \div bit) % 2 = 1

from_u8(idx) == idx % 8

\* the u8 sum of Dir::rotate exceeds the type
Overflows(dir, by) == dir + by >= U8

\* Dir::rotate where the sum wraps (or does not overflow)
rotate(dir, by) == from_u8((dir + by) % U8)

right(dir) == rotate(dir, 1)

left(dir) == rotate(dir, 7)

wrapping_sub(a, b) == (a - b + U8) % U8

\* ----------------------------------------------------------- DragonCurve
new(start, flags) == [list |-> <<start>>, depth |-> 0, flags |-> flags]

\* `*elem = elem.rotate(by)` over the first n elements, front to back.
\* Under overflow checks the first overflowing sum panics and leaves the
\* elements from there on untouched.
RotateElems(list, by, n, chk) ==
    LET bad == {i \in 1..n : Overflows(list[i], by)}
        done == IF chk /\ bad # {} THEN Min(bad) - 1 ELSE n
    IN  [list |-> [i \in 1..Len(list) |->
                      IF i <= done THEN rotate(list[i], by) ELSE list[i]],
         ovf  |-> bad # {}]

rotate_by(c, by, chk) ==
    LET r == RotateElems(c.list, by, Len(c.list), chk)
    IN  [curve |-> [c EXCEPT !.list = r.list], ovf |-> r.ovf]

rotate_to(c, to, chk) ==
    LET by == c.list[1] + 8 - to
    IN  rotate_by(c, by, chk)

\* variant: FLIP is not consulted
TurnRight_noflip(flags, rgt) ==
    contains(flags, LEVY) \/ rgt

\* variant: FLIP inverts the toggling flag rather than the turn
TurnRight_flipParity(flags, rgt) ==
    contains(flags, LEVY) \/ (rgt # contains(flags, FLIP))

\* the turn taken at one element of the grow walk
TurnRight(flags, rgt) ==
    (contains(flags, LEVY) \/ rgt) # contains(flags, FLIP)

\* variant: `right = !right` is missing
WalkStep_notoggle(w, flags) ==
    IF w.pos > Len(w.list) THEN w
    ELSE LET dir == w.list[w.pos]
             turn == TurnRight(flags, w.rgt)
             d2 == IF turn THEN right(dir) ELSE left(dir)
             cur == IF turn THEN left(dir) ELSE right(dir)
         IN  [list |-> SubSeq(w.list, 1, w.pos - 1) \o <<cur, d2>>
                          \o SubSeq(w.list, w.pos + 1, Len(w.list)),
              pos  |-> w.pos + 2,
              rgt  |-> w.rgt]

\* One iteration of `while let Some(dir) = cursor.current()`.  w.pos is the
\* cursor (Len + 1 is the ghost element, where the loop ends), w.rgt the
\* toggling flag.  The current element is rewritten, the cursor moves on and
\* the new element is inserted before it.
WalkStep(w, flags) ==
    IF w.pos > Len(w.list) THEN w
    ELSE LET dir == w.list[w.pos]
             turn == TurnRight(flags, w.rgt)
             d2 == IF turn THEN right(dir) ELSE left(dir)
             cur == IF turn THEN left(dir) ELSE right(dir)
         IN  [list |-> SubSeq(w.list, 1, w.pos - 1) \o <<cur, d2>>
                          \o SubSeq(w.list, w.pos + 1, Len(w.list)),
              pos  |-> w.pos + 2,
              rgt  |-> ~w.rgt]

\* k iterations in sequence: the first half of them, then the rest from the
\* state they leave (the split only keeps the evaluation shallow)
RECURSIVE WalkSteps(_, _, _)
WalkSteps(w, flags, k) ==
    IF k = 0 THEN w
    ELSE IF k = 1 THEN WalkStep(w, flags)
    ELSE LET half == WalkSteps(w, flags, k \div 2)
         IN  IF half.pos > 0 THEN WalkSteps(half, flags, k - (k \div 2))
             ELSE half

\* The cursor walk of one grow level, from the front until the ghost element:
\* the cursor passes one unvisited element per iteration, so the ghost is
\* reached after Len(list) iterations.
GrowWalk(list, flags) ==
    WalkSteps([list |-> list, pos |-> 1, rgt |-> TRUE], flags, Len(list)).list

\* `for _ in self.depth..depth`
RECURSIVE GrowLevels(_, _, _)
GrowLevels(list, flags, k) ==
    IF k <= 0 THEN list
    ELSE LET grown == GrowWalk(list, flags)
         IN  IF Len(grown) > 0 THEN GrowLevels(grown, flags, k - 1) ELSE grown

\* variant: the tail is not detached
split_after_keep(list, idx) == list

\* cursor.split_after(): the list keeps the elements up to the cursor
split_after(list, idx) == SubSeq(list, 1, idx)

\* the rotation amount of the Ordering::Greater branch
ShrinkRot(c, depth) ==
    LET rot == c.depth - depth
    IN  IF contains(c.flags, FLIP) THEN wrapping_sub(8, rot) ELSE rot

\* the Ordering::Less branch
grow(c, depth) ==
    [curve |-> [c EXCEPT !.list = GrowLevels(c.list, c.flags, depth - c.depth),
                         !.depth = depth],
     ovf |-> FALSE]

\* The Ordering::Greater branch.  A panic leaves the elements rotated so far
\* as they are, the tail attached and the depth as it was.
shrink(c, depth, chk) ==
    LET new_len == IF depth = 0 THEN 1 ELSE Pow2(depth)
        n == IF new_len <= Len(c.list) THEN new_len ELSE Len(c.list)
        r == RotateElems(c.list, ShrinkRot(c, depth), n, chk)
    IN  IF chk /\ r.ovf
        THEN [curve |-> [c EXCEPT !.list = r.list], ovf |-> TRUE]
        ELSE [curve |-> [c EXCEPT !.list = IF new_len <= Len(c.list)
                                           THEN split_after(r.list, new_len)
                                           ELSE r.list,
                                  !.depth = depth],
              ovf |-> r.ovf]

\* variant: no Equal branch, and the grow loop runs self.depth..=depth
set_depth_inclusive(c, depth, chk) ==
    IF c.depth <= depth
    THEN [curve |-> [c EXCEPT !.list = GrowLevels(c.list, c.flags,
                                                  depth - c.depth + 1),
                              !.depth = depth],
          ovf |-> FALSE]
    ELSE shrink(c, depth, chk)

set_depth(c, depth, chk) ==
    IF c.depth = depth THEN [curve |-> c, ovf |-> FALSE]
    ELSE IF c.depth < depth THEN grow(c, depth)
    ELSE shrink(c, depth, chk)

\* ------------------------------------------------------------- write_svg
\* The text one Dir::write_svg call formats: the path command and the signs
\* of its arguments.
SvgCmd(dir) ==
    CASE dir = 0 -> <<"l", 1, 1>>
      [] dir = 1 -> <<"h", 1>>
      [] dir = 2 -> <<"l", 1, -1>>
      [] dir = 3 -> <<"v", -1>>
      [] dir = 4 -> <<"l", -1, -1>>
      [] dir = 5 -> <<"h", -1>>
      [] dir = 6 -> <<"l", -1, 1>>
      [] dir = 7 -> <<"v", 1>>

\* A fmt::Write whose failAt-th write! fails (0: none fails).  log is every
\* write! attempted on it, in order.
Writer(failAt) == [log |-> <<>>, failAt |-> failAt]

WriteTo(w, item) ==
    [w |-> [w EXCEPT !.log = Append(@, item)],
     ok |-> Len(w.log) + 1 # w.failAt]

\* variant: the result of p.write_svg is dropped
RECURSIVE WriteSegs_ignore(_, _, _)
WriteSegs_ignore(list, i, w) ==
    IF i > Len(list) THEN [w |-> w, ok |-> TRUE]
    ELSE WriteSegs_ignore(list, i + 1, WriteTo(w, SvgCmd(list[i])).w)

\* `for p in &self.list { p.write_svg(w, step)?; }`
RECURSIVE WriteSegs(_, _, _)
WriteSegs(list, i, w) ==
    IF i > Len(list) THEN [w |-> w, ok |-> TRUE]
    ELSE LET r == WriteTo(w, SvgCmd(list[i]))
         IN  IF r.ok THEN WriteSegs(list, i + 1, r.w) ELSE r

write_svg(c, w) ==
    LET h == WriteTo(w, <<"M">>)
    IN  IF ~h.ok THEN [res |-> "Err", w |-> h.w]
        ELSE LET b == WriteSegs(c.list, 1, h.w)
             IN  IF ~b.ok THEN [res |-> "Err", w |-> b.w]
                 ELSE LET t == WriteTo(b.w, <<"M", "/">>)
                      IN  [res |-> IF t.ok THEN "Ok" ELSE "Err", w |-> t.w]

\* ----------------------------------------------------------------- state
VARIABLES
    curve,      \* the DragonCurve
    checked,    \* the build checks arithmetic overflow
    panicked,   \* a call panicked; the curve is what the unwinding left
    ovf,        \* a u8 sum of the last call exceeded 255
    lastOp,     \* the last call: [op, arg, from, again]
    target,     \* argument of the last set_depth call
    out,        \* result and writer of the last write_svg call
    start,      \* SpecPair, SpecShell: the start direction of the curves
    other,      \* SpecPair: an independently constructed curve
    saved,      \* SpecTrip: the sequence before the round trip
    phase,      \* SpecTrip: position in the round trip
    show, flip, levy, depth,   \* SpecShell: locals of main
    painted     \* SpecShell: what the last frame painted

libVars == <<curve, checked, panicked, ovf, lastOp, target, out>>
pairVars == <<start, other>>
tripVars == <<saved, phase>>
shellVars == <<show, flip, levy, depth, painted>>
vars == <<libVars, pairVars, tripVars, shellVars>>

NoOut == [res |-> "none", w |-> Writer(0)]
NoPaint == [any |-> FALSE, depth |-> 0, flip |-> FALSE, levy |-> FALSE,
            curve |-> new(Np0, NONE)]

Op(op, arg, from) ==
    [op |-> op, arg |-> arg, from |-> from,
     again |-> op = "set_depth" /\ lastOp.op = "set_depth" /\ lastOp.arg = arg]

InitLib ==
    /\ \E s \in Dirs, f \in AllFlags : curve = new(s, f)
    /\ checked \in BOOLEAN
    /\ panicked = FALSE
    /\ ovf = FALSE
    /\ lastOp = [op |-> "new", arg |-> 0, from |-> 0, again |-> FALSE]
    /\ target = 0
    /\ out = NoOut

InitRest ==
    /\ start = Np0
    /\ other = new(Np0, NONE)
    /\ saved = new(Np0, NONE)
    /\ phase = "new"
    /\ show = TRUE
    /\ flip = FALSE
    /\ levy = FALSE
    /\ depth = 0
    /\ painted = NoPaint

Init == InitLib /\ InitRest

\* a call on the curve that may panic
Call(r, op) ==
    /\ ~panicked
    /\ curve' = r.curve
    /\ ovf' = r.ovf
    /\ panicked' = (checked /\ r.ovf)
    /\ lastOp' = op
    /\ out' = NoOut
    /\ UNCHANGED checked

SetDepthCall(n) ==
    /\ Call(set_depth(curve, n, checked), Op("set_depth", n, curve.depth))
    /\ target' = n

SetDepth(n) ==
    /\ SetDepthCall(n)
    /\ UNCHANGED <<pairVars, tripVars, shellVars>>

RotateBy(by) ==
    /\ Call(rotate_by(curve, by, checked), Op("rotate_by", by, curve.depth))
    /\ UNCHANGED <<target, pairVars, tripVars, shellVars>>

RotateTo(to) ==
    /\ Call(rotate_to(curve, to, checked), Op("rotate_to", to, curve.depth))
    /\ UNCHANGED <<target, pairVars, tripVars, shellVars>>

WriteSvg(failAt) ==
    /\ ~panicked
    /\ out' = write_svg(curve, Writer(failAt))
    /\ lastOp' = Op("write_svg", failAt, curve.depth)
    /\ ovf' = FALSE
    /\ UNCHANGED <<curve, checked, panicked, target>>
    /\ UNCHANGED <<pairVars, tripVars, shellVars>>

Next ==
    \/ \E n \in 0..MaxDepth : SetDepth(n)
    \/ \E by \in RotateAmounts : RotateBy(by)
    \/ \E to \in Dirs : RotateTo(to)
    \/ \E failAt \in 0..(Len(curve.list) + 2) : WriteSvg(failAt)

Spec == Init /\ [][Next]_vars

\* ------------------------------------------------ two independent curves
ToggleFlip(f) == IF contains(f, FLIP) THEN f - FLIP ELSE f + FLIP

InitPair ==
    /\ InitLib
    /\ start = curve.list[1]
    /\ other \in {new(start, curve.flags), new(start, ToggleFlip(curve.flags))}
    /\ saved = new(Np0, NONE)
    /\ phase = "new"
    /\ show = TRUE
    /\ flip = FALSE
    /\ levy = FALSE
    /\ depth = 0
    /\ painted = NoPaint

PairGrow(n) ==
    /\ curve.depth < n
    /\ curve' = set_depth(curve, n, checked).curve
    /\ UNCHANGED <<checked, panicked, ovf, lastOp, target, out>>
    /\ UNCHANGED <<pairVars, tripVars, shellVars>>

PairGrowOther(n) ==
    /\ other.depth < n
    /\ other' = set_depth(other, n, checked).curve
    /\ UNCHANGED <<start, libVars, tripVars, shellVars>>

NextPair ==
    \/ \E n \in 1..MaxDeep : PairGrow(n)
    \/ \E n \in 1..MaxDepth : PairGrowOther(n)

SpecPair == InitPair /\ [][NextPair]_vars

\* ------------------------------------------------- grow and shrink back
TripBase(d) ==
    /\ phase = "new"
    /\ SetDepthCall(d)
    /\ saved' = curve'
    /\ phase' = "base"
    /\ UNCHANGED <<pairVars, shellVars>>

TripGrow(k) ==
    /\ phase = "base"
    /\ curve.depth + k <= MaxDeep
    /\ SetDepthCall(curve.depth + k)
    /\ phase' = "grown"
    /\ UNCHANGED <<saved, pairVars, shellVars>>

TripShrink ==
    /\ phase = "grown"
    /\ SetDepthCall(saved.depth)
    /\ phase' = "back"
    /\ UNCHANGED <<saved, pairVars, shellVars>>

NextTrip ==
    \/ \E d \in 0..(MaxDeep - 1) : TripBase(d)
    \/ \E k \in 1..MaxDeep : TripGrow(k)
    \/ TripShrink

SpecTrip == Init /\ [][NextTrip]_vars

\* ------------------------------------------------------ main: frame loop
ShellFlags(fl, lv) ==
    (IF fl THEN FLIP ELSE NONE) + (IF lv THEN LEVY ELSE NONE)

\* variant: the second checkbox assigns `changed` instead of or-ing into it
Changed_last(tFlip, tLevy) == tLevy

\* `changed |= ...checkbox(flip)...; changed |= ...checkbox(levy)...`
Changed(tFlip, tLevy) == tFlip \/ tLevy

InitShell ==
    /\ curve = new(Np0, NONE)
    /\ checked \in BOOLEAN
    /\ panicked = FALSE
    /\ ovf = FALSE
    /\ lastOp = [op |-> "new", arg |-> 0, from |-> 0, again |-> FALSE]
    /\ target = 0
    /\ out = NoOut
    /\ InitRest

\* One call of the frame closure.  space: Space was pressed; tFlip, tLevy:
\* the checkbox was clicked; nd: where the slider was left.  The curve is
\* painted before the options are read, and the options exist only while
\* the panel is shown.
Frame(space, tFlip, tLevy, nd) ==
    /\ ~panicked
    /\ show' = IF space THEN ~show ELSE show
    /\ painted' = [any |-> TRUE, depth |-> depth, flip |-> flip,
                   levy |-> levy, curve |-> curve]
    /\ IF show'
       THEN LET flip2 == IF tFlip THEN ~flip ELSE flip
                levy2 == IF tLevy THEN ~levy ELSE levy
                c0 == IF Changed(tFlip, tLevy)
                      THEN new(start, ShellFlags(flip2, levy2))
                      ELSE curve
                r == set_depth(c0, nd, checked)
            IN  /\ flip' = flip2
                /\ levy' = levy2
                /\ depth' = nd
                /\ curve' = r.curve
                /\ ovf' = r.ovf
                /\ panicked' = (checked /\ r.ovf)
                /\ lastOp' = Op("set_depth", nd, c0.depth)
                /\ target' = nd
       ELSE UNCHANGED <<flip, levy, depth, curve, ovf, panicked, lastOp, target>>
    /\ UNCHANGED <<checked, out, pairVars, tripVars>>

NextShell ==
    \E space \in BOOLEAN, tFlip \in BOOLEAN, tLevy \in BOOLEAN,
       nd \in 0..MaxSlider : Frame(space, tFlip, tLevy, nd)

SpecShell == InitShell /\ [][NextShell]_vars

\* ================================================================ claims
Rot(x, by) == (x + by) % 8

\* C1: after new and any sequence of set_depth, rotate_by and rotate_to
\* calls the curve has 2^depth() segments, and depth() is the target of the
\* last set_depth call.
C1_Length ==
    /\ Len(curve.list) = Pow2(curve.depth)
    /\ ~panicked => curve.depth = target

C1_Witness ==
    /\ ~panicked
    /\ lastOp.op = "rotate_to"
    /\ target = 2
    /\ Len(curve.list) = 4
    /\ contains(curve.flags, FLIP)

\* C2: the first 2^d segments of a curve grown to depth D > d, each rotated
\* by (D - d) mod 8 (FLIP clear) or (8 - (D - d)) mod 8 (FLIP set), are the
\* sequence of an independent curve with the same start and flags grown to d.
C2_Prefix ==
    (other.flags = curve.flags /\ other.depth < curve.depth) =>
        LET k == (curve.depth - other.depth) % 8
            rot == IF contains(curve.flags, FLIP) THEN (8 - k) % 8 ELSE k
        IN  /\ Len(other.list) = Pow2(other.depth)
            /\ Len(other.list) <= Len(curve.list)
            /\ \A i \in 1..Len(other.list) :
                   Rot(curve.list[i], rot) = other.list[i]

C2_Witness ==
    /\ other.flags = curve.flags
    /\ contains(curve.flags, FLIP)
    /\ other.depth = 2
    /\ curve.depth = 5

C4_Subdivision ==
    [][(lastOp'.op = "set_depth" /\ curve'.depth = curve.depth + 1) =>
        /\ Len(curve'.list) = 2 * Len(curve.list)
        /\ \A i \in 0..(Len(curve.list) - 1) :
              LET s == curve.list[i + 1]
                  turnRight == (contains(curve.flags, LEVY) \/ i % 2 = 0)
                                  # contains(curve.flags, FLIP)
              IN  <<curve'.list[2 * i + 1], curve'.list[2 * i + 2]>> =
                      IF turnRight THEN <<Rot(s, 7), Rot(s, 1)>>
                                   ELSE <<Rot(s, 1), Rot(s, 7)>>
    ]_vars

C4_Witness ==
    /\ lastOp.op = "set_depth"
    /\ lastOp.from = 2
    /\ curve.depth = 3
    /\ curve.flags = NONE

\* C5: after rotate_to(t) the first element is t and every element was
\* rotated by the same amount.
C5_RotateTo ==
    [][lastOp'.op = "rotate_to" =>
        /\ curve'.list[1] = lastOp'.arg
        /\ \E by \in 0..7 : \A i \in 1..Len(curve.list) :
               curve'.list[i] = Rot(curve.list[i], by)
    ]_vars

\* C6: no rotation of set_depth has a u8 sum above 255, set_depth returns,
\* and every element is one of the 8 directions.
C6_Total ==
    lastOp.op = "set_depth" =>
        /\ ~ovf
        /\ ~panicked
        /\ \A i \in 1..Len(curve.list) : curve.list[i] \in Dirs

\* C7: at equal depth the sequence with FLIP is the sequence without FLIP
\* reflected about the start direction.
C7_FlipSymmetry ==
    (other.flags = ToggleFlip(curve.flags) /\ other.depth = curve.depth) =>
        /\ Len(other.list) = Len(curve.list)
        /\ \A i \in 1..Len(curve.list) :
               other.list[i] = (2 * start + 8 - curve.list[i]) % 8

C7_Witness ==
    /\ other.flags = ToggleFlip(curve.flags)
    /\ contains(curve.flags, LEVY)
    /\ other.depth = 3
    /\ curve.depth = 3

\* C8: set_depth(n) right after set_depth(n) changes neither the sequence
\* nor the depth nor the flags.
C8_Idempotent ==
    [][(lastOp.op = "set_depth" /\ lastOp'.op = "set_depth"
            /\ lastOp'.arg = lastOp.arg)
        => curve' = curve]_vars

C8_Witness ==
    /\ lastOp.op = "set_depth"
    /\ lastOp.again
    /\ curve.depth = 3
    /\ ~panicked

\* C9: write_svg returns the failure of the first failing write, attempts
\* no write after it, and leaves the curve as it was.
C9_SvgFailure ==
    [][lastOp'.op = "write_svg" =>
        LET n == Len(curve.list)
            k == lastOp'.arg
            full == [i \in 1..(n + 2) |->
                        IF i = 1 THEN <<"M">>
                        ELSE IF i = n + 2 THEN <<"M", "/">>
                        ELSE SvgCmd(curve.list[i - 1])]
        IN  /\ curve' = curve
            /\ IF k = 0
               THEN out'.res = "Ok" /\ out'.w.log = full
               ELSE out'.res = "Err" /\ out'.w.log = SubSeq(full, 1, k)
    ]_vars

C9_Witness ==
    /\ lastOp.op = "write_svg"
    /\ out.res = "Err"
    /\ Len(curve.list) = 8
    /\ lastOp.arg = 4
    /\ Len(out.w.log) = 4

\* C10: what a frame paints is a curve whose depth is the shell's depth,
\* whose flags are those of the checkboxes and whose sequence is that of a
\* fresh curve new(Np0, flags) grown to that depth.
C10_Paint ==
    painted.any =>
        LET fl == ShellFlags(painted.flip, painted.levy)
        IN  /\ painted.curve.depth = painted.depth
            /\ painted.curve.flags = fl
            /\ painted.curve.list =
                   GrowLevels(<<Np0>>, fl, painted.depth)

C10_Witness ==
    /\ painted.any
    /\ painted.flip
    /\ painted.depth = 2
    /\ lastOp.op = "set_depth"
    /\ lastOp.from = 4
    /\ ~show

====
